---- MODULE Spec2Model ----
(***************************************************************************)
(* Model of the crate string_io_and_mock (src/src/lib.rs): the trait       *)
(* TextIOHandler with its two implementors, FileTextHandler (over a file   *)
(* system) and MockTextHandler (over a HashMap).                           *)
(*                                                                         *)
(* An OsStr is a sequence of characters; a character is a one-character    *)
(* string, and Invalid stands for a byte that is not valid UTF-8.  The     *)
(* target is a Unix build: `/` is the only separator std::path knows, a    *)
(* Component::Prefix never occurs, and `\` is an ordinary file name        *)
(* character for the kernel.                                               *)
(***************************************************************************)
EXTENDS Naturals, Integers, Sequences, FiniteSets, TLC

----------------------------------------------------------------------------
(* Bounds of the model.                                                    *)

\* longest last part of a pattern handed to FileTextHandler::list_names
MaxTail == 3
\* longest pattern handed to MockTextHandler::list_names
MaxPat == 3

----------------------------------------------------------------------------
(* Characters and strings.                                                 *)

Invalid == "0xFF"
Sep == "/"
Backslash == "\\"
Sigma == {"a", "c", ".", "*", "?", Sep, Backslash, "(", Invalid}

Strs(n) == UNION {[1..k -> Sigma] : k \in 0..n}

Last(s) == s[Len(s)]
Front(s) == SubSeq(s, 1, Len(s) - 1)
Drop(s, n) == SubSeq(s, n + 1, Len(s))
Take(s, n) == SubSeq(s, 1, n)

\* OsStr::to_str: None for a string that is not valid UTF-8.
IsUtf8(s) == \A i \in 1..Len(s) : s[i] # Invalid

\* str::replace(from, to) for a one-character `from`.
RECURSIVE Replace(_, _, _)
Replace(s, from, to) ==
    IF s = <<>> THEN <<>>
    ELSE (IF Head(s) = from THEN to ELSE <<Head(s)>>) \o Replace(Tail(s), from, to)

\* The pieces of s between the separators (str::split on `/`).
RECURSIVE Split(_)
Split(s) ==
    IF \A i \in 1..Len(s) : s[i] # Sep THEN <<s>>
    ELSE LET i == CHOOSE j \in 1..Len(s) : s[j] = Sep /\ \A k \in 1..(j-1) : s[k] # Sep
         IN  <<Take(s, i - 1)>> \o Split(Drop(s, i))

----------------------------------------------------------------------------
(* The error type and the wildcard predicate.                              *)

PathErrors == {"NonexistentParent", "NonUtf8", "WildcardInParent", "IOError", "RegexError"}

IsWildcardChar(ch) == ch = "*" \/ ch = "?"

HasWildcardChar(s) == \E i \in 1..Len(s) : IsWildcardChar(s[i])

\* contains_wildcards, had it decoded the name with to_string_lossy.
contains_wildcards_Lossy(name) ==
    IF HasWildcardChar(name) THEN "true" ELSE "false"

\* contains_wildcards: Err(NonUtf8), or Ok(whether the regex [?\*] matches).
contains_wildcards(name) ==
    IF ~IsUtf8(name) THEN "NonUtf8"
    ELSE IF HasWildcardChar(name) THEN "true" ELSE "false"

----------------------------------------------------------------------------
(* std::path on Unix, as list_names uses it.                               *)

has_root(s) == s # <<>> /\ s[1] = Sep

\* A leading `.` component is kept (CurDir); every other `.` is dropped.
include_cur_dir(s) ==
    /\ ~has_root(s)
    /\ Len(s) >= 1
    /\ s[1] = "."
    /\ (Len(s) = 1 \/ s[2] = Sep)

Dot == <<".">>
DotDot == <<".", ".">>

Component(type, text) == [type |-> type, text |-> text]

\* The component an i-th piece makes, as a sequence of zero or one component.
PieceComponent(s, piece, i) ==
    IF piece = <<>> THEN <<>>
    ELSE IF piece = Dot
         THEN (IF i = 1 /\ include_cur_dir(s) THEN <<Component("CurDir", piece)>> ELSE <<>>)
    ELSE IF piece = DotDot THEN <<Component("ParentDir", piece)>>
    ELSE <<Component("Normal", piece)>>

RECURSIVE BodyComponents(_, _, _)
BodyComponents(s, pieces, i) ==
    IF i > Len(pieces) THEN <<>>
    ELSE PieceComponent(s, pieces[i], i) \o BodyComponents(s, pieces, i + 1)

\* Path::components(): RootDir for a leading separator, then the pieces.
Components(s) ==
    (IF has_root(s) THEN <<Component("RootDir", <<Sep>>)>> ELSE <<>>)
        \o BodyComponents(s, Split(s), 1)

len_before_body(s, root) ==
    (IF root THEN 1 ELSE 0) + (IF include_cur_dir(s) THEN 1 ELSE 0)

\* Components::parse_next_component_back: the text after the last separator
\* of the body, and how many characters it takes with its separator.
parse_next_component_back(s, root) ==
    LET body == Drop(s, len_before_body(s, root))
        seps == {i \in 1..Len(body) : body[i] = Sep}
    IN  IF seps = {} THEN [size |-> Len(body), comp |-> body]
        ELSE LET i == CHOOSE j \in seps : \A k \in seps : k <= j
             IN  [size |-> Len(body) - i + 1, comp |-> Drop(body, i)]

IsSomeComponent(comp) == comp # <<>> /\ comp # Dot

\* Components::next_back: the path slice left once the last component is taken.
RECURSIVE next_back(_, _)
next_back(s, root) ==
    IF Len(s) > len_before_body(s, root)
    THEN LET r == parse_next_component_back(s, root)
             rest == Take(s, Len(s) - r.size)
         IN  IF IsSomeComponent(r.comp) THEN [path |-> rest, body |-> TRUE]
             ELSE next_back(rest, root)
    ELSE IF root \/ include_cur_dir(s) THEN [path |-> Front(s), body |-> FALSE]
    ELSE [path |-> s, body |-> FALSE]

\* Components::trim_right: trailing separators and `.` pieces are not part
\* of the slice as_path returns.
RECURSIVE trim_right(_, _)
trim_right(s, root) ==
    IF Len(s) > len_before_body(s, root)
    THEN LET r == parse_next_component_back(s, root)
         IN  IF IsSomeComponent(r.comp) THEN s
             ELSE trim_right(Take(s, Len(s) - r.size), root)
    ELSE s

\* let mut components = Path::new(&path_str).components();
\* components.next_back(); path = components.as_path();
ParentPath(s) ==
    LET nb == next_back(s, has_root(s))
    IN  IF nb.body THEN trim_right(nb.path, has_root(s)) ELSE nb.path

\* PathBuf::join of a directory path and a file name (DirEntry::path).
JoinPath(dir, name) ==
    IF dir = <<>> THEN name
    ELSE IF Last(dir) = Sep THEN dir \o name
    ELSE dir \o <<Sep>> \o name

----------------------------------------------------------------------------
(* The file system FileTextHandler works on (the Directory Provider): a    *)
(* function from the absolute path of each existing node, a sequence of    *)
(* names, to the node.  The process's current directory is the root.       *)

FileNode(content) == [kind |-> "file", content |-> content, target |-> <<>>]
DirNode == [kind |-> "dir", content |-> "", target |-> <<>>]
LinkNode(target) == [kind |-> "link", content |-> "", target |-> target]

Cwd == <<>>

IoOk(at) == [ok |-> TRUE, at |-> at, err |-> ""]
IoErr(kind) == [ok |-> FALSE, at |-> <<>>, err |-> kind]

\* The kernel's path walk from directory cur over the pieces of a path:
\* the node reached, every symbolic link followed, or the error.
RECURSIVE Walk(_, _, _, _, _)
Walk(f, cur, pieces, i, fuel) ==
    IF i > Len(pieces) THEN IoOk(cur)
    ELSE IF f[cur].kind # "dir" THEN IoErr("NotADirectory")
    ELSE IF pieces[i] = <<>> \/ pieces[i] = Dot THEN Walk(f, cur, pieces, i + 1, fuel)
    ELSE IF pieces[i] = DotDot
         THEN Walk(f, IF cur = <<>> THEN cur ELSE Front(cur), pieces, i + 1, fuel)
    ELSE LET child == Append(cur, pieces[i])
         IN  IF child \notin DOMAIN f THEN IoErr("NotFound")
             ELSE IF f[child].kind = "link"
                  THEN IF fuel = 0 THEN IoErr("FilesystemLoop")
                       ELSE LET t == Walk(f, <<>>, f[child].target, 1, fuel - 1)
                            IN  IF t.ok THEN Walk(f, t.at, pieces, i + 1, fuel) ELSE t
             ELSE Walk(f, child, pieces, i + 1, fuel)

\* std::fs::metadata(path): follows symbolic links; the empty path is no file.
Stat(f, s) ==
    IF s = <<>> THEN IoErr("NotFound")
    ELSE Walk(f, IF has_root(s) THEN <<>> ELSE Cwd, Split(s), 1, 2)

\* is_dir, had the code asked Path::exists instead.
is_dir_Exists(f, s) == Stat(f, s).ok

\* Path::is_file, Path::is_dir: any error is `false`.
is_file(f, s) == LET r == Stat(f, s) IN r.ok /\ f[r.at].kind = "file"
is_dir(f, s) == LET r == Stat(f, s) IN r.ok /\ f[r.at].kind = "dir"

\* Path::read_dir of an existing directory: the names of its entries.
read_dir(f, s) ==
    LET d == Stat(f, s).at
    IN  {Last(p) : p \in {q \in DOMAIN f : Len(q) = Len(d) + 1 /\ Front(q) = d}}

\* DirEntry::file_type: the entry's own type, a symbolic link not followed.
file_type(f, s, name) == f[Append(Stat(f, s).at, name)].kind

----------------------------------------------------------------------------
(* The regex crate, as far as the translated patterns use it.  A pattern   *)
(* text reaches Regex::new as `^` + text + `$`; its characters come from   *)
(* Sigma, so the syntax to model is: the two anchors, `.`, `.*`, an        *)
(* escape `\x`, an opening parenthesis (never closed: Sigma has no `)`),   *)
(* and literals.  `.` matches any character but a line feed, which is not  *)
(* in Sigma.                                                               *)

Bell == "0x07"

Tok(t, c) == [t |-> t, c |-> c]

\* `\x`: a meta character is itself; `\a` is the bell character; the crate
\* rejects `\c`; `\/` is a literal for regex-syntax from 0.7 on (lenient)
\* and an unrecognized escape before.
Escape(x, lenient) ==
    IF x \in {Backslash, ".", "*", "?", "(", "^", "$"} THEN Tok("lit", x)
    ELSE IF x = "a" THEN Tok("lit", Bell)
    ELSE IF x = Sep /\ lenient THEN Tok("lit", x)
    ELSE Tok("error", x)

\* Regex::new: the tokens of the expression, or <<Tok("error", _)>>.
RECURSIVE RegexParse(_, _, _)
RegexParse(r, acc, lenient) ==
    IF r = <<>> THEN acc
    ELSE IF Head(r) = Backslash
         THEN IF Len(r) = 1 THEN <<Tok("error", Backslash)>>
              ELSE LET e == Escape(r[2], lenient)
                   IN  IF e.t = "error" THEN <<e>>
                       ELSE RegexParse(Drop(r, 2), Append(acc, e), lenient)
    ELSE IF Head(r) = "(" THEN <<Tok("error", "(")>>
    ELSE IF Head(r) = "*"
         THEN IF acc = <<>> THEN <<Tok("error", "*")>>
              ELSE RegexParse(Tail(r), Append(Front(acc), Tok("star" \o Last(acc).t, Last(acc).c)), lenient)
    ELSE IF Head(r) = "^" THEN RegexParse(Tail(r), Append(acc, Tok("start", "")), lenient)
    ELSE IF Head(r) = "$" THEN RegexParse(Tail(r), Append(acc, Tok("end", "")), lenient)
    ELSE IF Head(r) = "." THEN RegexParse(Tail(r), Append(acc, Tok("any", "")), lenient)
    ELSE RegexParse(Tail(r), Append(acc, Tok("lit", Head(r))), lenient)

RegexNew(r, lenient) == RegexParse(r, <<>>, lenient)

RegexIsError(toks) == toks # <<>> /\ toks[1].t = "error"

\* Whether the tokens from the i-th on match text from position j on.
RECURSIVE MatchFrom(_, _, _, _)
MatchFrom(toks, i, text, j) ==
    IF i > Len(toks) THEN TRUE
    ELSE LET k == toks[i]
         IN  IF k.t = "start" THEN j = 1 /\ MatchFrom(toks, i + 1, text, j)
             ELSE IF k.t = "end" THEN j = Len(text) + 1 /\ MatchFrom(toks, i + 1, text, j)
             ELSE IF k.t = "lit"
                  THEN j <= Len(text) /\ text[j] = k.c /\ MatchFrom(toks, i + 1, text, j + 1)
             ELSE IF k.t = "any" THEN j <= Len(text) /\ MatchFrom(toks, i + 1, text, j + 1)
             ELSE IF k.t = "starany"
                  THEN \E n \in j..(Len(text) + 1) : MatchFrom(toks, i + 1, text, n)
             ELSE IF k.t = "starlit"
                  THEN \E n \in j..(Len(text) + 1) :
                          /\ \A m \in j..(n - 1) : text[m] = k.c
                          /\ MatchFrom(toks, i + 1, text, n)
             ELSE FALSE

\* Regex::is_match: a search, anchored only where the expression says so.
is_match(toks, text) == \E j \in 1..(Len(text) + 1) : MatchFrom(toks, 1, text, j)

----------------------------------------------------------------------------
(* Results.  A Result<Vec<OsString>, PathError> or an IoResult; `calls`    *)
(* lists the Directory Provider calls the operation made, in order.        *)

Ok(names, calls) == [tag |-> "Ok", names |-> names, text |-> "", err |-> "", calls |-> calls]
Err(e, calls) == [tag |-> "Err", names |-> <<>>, text |-> "", err |-> e, calls |-> calls]
OkText(content) == [tag |-> "Ok", names |-> <<>>, text |-> content, err |-> "", calls |-> <<>>]
NoResult == [tag |-> "None", names |-> <<>>, text |-> "", err |-> "", calls |-> <<>>]

\* Every order in which an iterator may yield the elements of S.
RECURSIVE Orders(_)
Orders(S) ==
    IF S = {} THEN {<<>>}
    ELSE UNION {{<<x>> \o q : q \in Orders(S \ {x})} : x \in S}

----------------------------------------------------------------------------
(* FileTextHandler                                                         *)

\* ScanComponents, had `is_last = false` been placed in the arms of the
\* named components only.
RECURSIVE ScanComponents_LastNotCleared(_, _, _, _)
ScanComponents_LastNotCleared(comps, i, is_last, last_part) ==
    IF i = 0 THEN [err |-> "", last_part |-> last_part]
    ELSE IF comps[i].type \in {"RootDir", "CurDir", "ParentDir"}
         THEN ScanComponents_LastNotCleared(comps, i - 1, is_last, last_part)
    ELSE LET cw == contains_wildcards(comps[i].text)
         IN  IF ~is_last /\ cw = "NonUtf8" THEN [err |-> "NonUtf8", last_part |-> last_part]
             ELSE IF ~is_last /\ cw = "true"
                  THEN [err |-> "WildcardInParent", last_part |-> last_part]
             ELSE IF is_last /\ ~IsUtf8(comps[i].text)
                  THEN [err |-> "NonUtf8", last_part |-> last_part]
             ELSE ScanComponents_LastNotCleared(comps, i - 1, FALSE,
                                 IF is_last THEN comps[i].text ELSE last_part)

\* ScanComponents, had the loop run over path.components() without rev():
\* the first component is then taken for the last one.
RECURSIVE ScanComponents_Forward(_, _, _, _)
ScanComponents_Forward(comps, i, is_last, last_part) ==
    IF i = 0 THEN [err |-> "", last_part |-> last_part]
    ELSE LET c == comps[Len(comps) + 1 - i]
             cw == contains_wildcards(c.text)
         IN  IF c.type \in {"RootDir", "CurDir", "ParentDir"}
             THEN ScanComponents_Forward(comps, i - 1, FALSE, last_part)
             ELSE IF ~is_last /\ cw = "NonUtf8"
                  THEN [err |-> "NonUtf8", last_part |-> last_part]
             ELSE IF ~is_last /\ cw = "true"
                  THEN [err |-> "WildcardInParent", last_part |-> last_part]
             ELSE IF is_last /\ ~IsUtf8(c.text)
                  THEN [err |-> "NonUtf8", last_part |-> last_part]
             ELSE ScanComponents_Forward(comps, i - 1, FALSE,
                                         IF is_last THEN c.text ELSE last_part)

\* The loop over path.components().rev(): no component but the last may
\* hold a wildcard; the text of the last one is the pattern to translate.
RECURSIVE ScanComponents(_, _, _, _)
ScanComponents(comps, i, is_last, last_part) ==
    IF i = 0 THEN [err |-> "", last_part |-> last_part]
    ELSE IF comps[i].type \in {"RootDir", "CurDir", "ParentDir"}
         THEN ScanComponents(comps, i - 1, FALSE, last_part)
    ELSE LET cw == contains_wildcards(comps[i].text)
         IN  IF ~is_last /\ cw = "NonUtf8" THEN [err |-> "NonUtf8", last_part |-> last_part]
             ELSE IF ~is_last /\ cw = "true"
                  THEN [err |-> "WildcardInParent", last_part |-> last_part]
             ELSE IF is_last /\ ~IsUtf8(comps[i].text)
                  THEN [err |-> "NonUtf8", last_part |-> last_part]
             ELSE ScanComponents(comps, i - 1, FALSE,
                                 IF is_last THEN comps[i].text ELSE last_part)

\* FileRegexStr, had the anchors been left out of the format string.
FileRegexStr_Unanchored(last_part) ==
    Replace(Replace(Replace(last_part, ".", <<Backslash, ".">>), "*", <<".", "*">>),
            "?", <<".">>)

\* format!("^{}$", last_part.replace(".", r"\.").replace("*", ".*").replace("?", "."))
FileRegexStr(last_part) ==
    <<"^">>
        \o Replace(Replace(Replace(last_part, ".", <<Backslash, ".">>), "*", <<".", "*">>),
                   "?", <<".">>)
        \o <<"$">>

\* FileCandidates, had a symbolic link been taken without asking for the
\* metadata of what it resolves to.
FileCandidates_AnyLink(f, dir, rgx) ==
    {name \in read_dir(f, dir) :
        /\ file_type(f, dir, name) \in {"file", "link"}
        /\ IsUtf8(name)
        /\ is_match(rgx, name)}

\* The closure of filter_map: the entries that are plain files, or symbolic
\* links that resolve to one, whose name is text and matches.
FileCandidates(f, dir, rgx) ==
    {name \in read_dir(f, dir) :
        /\ \/ file_type(f, dir, name) = "file"
           \/ /\ file_type(f, dir, name) = "link"
              /\ is_file(f, JoinPath(dir, name))
        /\ IsUtf8(name)
        /\ is_match(rgx, name)}

\* FileTextHandler::list_names: every result the call may return (the
\* order of the names is that of the directory enumeration).  The file
\* system of the model has no permissions: read_dir of an existing
\* directory succeeds, and IOError is not returned.
file_list_names(f, global_name) ==
    IF ~IsUtf8(global_name) THEN {Err("NonUtf8", <<>>)}
    ELSE
    LET path_str == Replace(global_name, Backslash, <<Sep>>)
    IN  IF contains_wildcards(global_name) = "false"
        THEN {Ok(IF is_file(f, path_str) THEN <<global_name>> ELSE <<>>, <<"is_file">>)}
        ELSE
        LET comps == Components(path_str)
            scan == ScanComponents(comps, Len(comps), TRUE, <<>>)
            parent == ParentPath(path_str)
            rgx == RegexNew(FileRegexStr(scan.last_part), TRUE)
        IN  IF scan.err # "" THEN {Err(scan.err, <<>>)}
            ELSE IF ~is_dir(f, parent) THEN {Err("NonexistentParent", <<"is_dir">>)}
            ELSE IF RegexIsError(rgx) THEN {Err("RegexError", <<"is_dir", "read_dir">>)}
            ELSE {Ok(names, <<"is_dir", "read_dir">>) :
                    names \in Orders({JoinPath(parent, name) :
                                        name \in FileCandidates(f, parent, rgx)})}

\* std::fs::read_to_string(name)
file_read_text(f, name) ==
    LET r == Stat(f, name)
    IN  IF ~r.ok THEN Err(r.err, <<>>)
        ELSE IF f[r.at].kind = "dir" THEN Err("IsADirectory", <<>>)
        ELSE OkText(f[r.at].content)

\* Where open(name, O_WRONLY | O_CREAT | O_TRUNC) puts the file: the path of
\* the node it truncates or creates, or the error.
RECURSIVE OpenForWrite(_, _, _, _)
OpenForWrite(f, start, pieces, fuel) ==
    LET dir == Walk(f, start, Front(pieces), 1, 2)
        child == Append(dir.at, Last(pieces))
    IN  IF ~dir.ok THEN dir
        ELSE IF f[dir.at].kind # "dir" THEN IoErr("NotADirectory")
        ELSE IF Last(pieces) \in {<<>>, Dot, DotDot} THEN IoErr("IsADirectory")
        ELSE IF child \notin DOMAIN f THEN IoOk(child)
        ELSE IF f[child].kind = "dir" THEN IoErr("IsADirectory")
        ELSE IF f[child].kind = "file" THEN IoOk(child)
        ELSE IF fuel = 0 \/ f[child].target = <<>> THEN IoErr("FilesystemLoop")
        ELSE OpenForWrite(f, <<>>, f[child].target, fuel - 1)

\* std::fs::write(name, content): the file system afterwards and the result.
file_write_text(f, name, content) ==
    LET at == IF name = <<>> THEN IoErr("NotFound")
              ELSE OpenForWrite(f, IF has_root(name) THEN <<>> ELSE Cwd, Split(name), 2)
    IN  IF at.ok THEN [fs |-> (at.at :> FileNode(content)) @@ f, result |-> OkText("")]
        ELSE [fs |-> f, result |-> Err(at.err, <<>>)]

----------------------------------------------------------------------------
(* MockTextHandler: texts is the HashMap, a function from its keys.        *)

\* format!("^{}$", gstr.replace("*", ".*").replace("?", "."))
MockRegexStr(gstr) ==
    <<"^">> \o Replace(Replace(gstr, "*", <<".", "*">>), "?", <<".">>) \o <<"$">>

\* mock_list_names, had the branch for a name without wildcards been left
\* out.
mock_list_names_NoFastPath(t, global_name, lenient) ==
    IF contains_wildcards(global_name) = "NonUtf8" THEN {Err("NonUtf8", <<>>)}
    ELSE LET rgx == RegexNew(MockRegexStr(global_name), lenient)
         IN  IF RegexIsError(rgx) THEN {Err("RegexError", <<>>)}
             ELSE {Ok(names, <<>>) :
                     names \in Orders({key \in DOMAIN t : IsUtf8(key) /\ is_match(rgx, key)})}

\* MockTextHandler::list_names: every result the call may return (the order
\* of the names is that of HashMap::keys).  lenient: the regex crate of the
\* build takes a superfluous escape.
mock_list_names(t, global_name, lenient) ==
    IF contains_wildcards(global_name) = "NonUtf8" THEN {Err("NonUtf8", <<>>)}
    ELSE IF contains_wildcards(global_name) = "false"
         THEN {Ok(IF global_name \in DOMAIN t THEN <<global_name>> ELSE <<>>, <<>>)}
    ELSE LET rgx == RegexNew(MockRegexStr(global_name), lenient)
         IN  IF RegexIsError(rgx) THEN {Err("RegexError", <<>>)}
             ELSE {Ok(names, <<>>) :
                     names \in Orders({key \in DOMAIN t : IsUtf8(key) /\ is_match(rgx, key)})}

\* MockTextHandler::read_text
mock_read_text(t, name) ==
    IF name \in DOMAIN t THEN OkText(t[name]) ELSE Err("NotFound", <<>>)

\* mock_write_text, had it kept the content a name already has
\* (entry().or_insert).
mock_write_text_KeepsFirst(t, name, content) ==
    [texts |-> t @@ (name :> content), result |-> OkText("")]

\* MockTextHandler::write_text: HashMap::insert, then Ok(()).
mock_write_text(t, name, content) ==
    [texts |-> (name :> content) @@ t, result |-> OkText("")]

----------------------------------------------------------------------------
(* The state machine: one handler of each kind and its callers.            *)

VARIABLES
    fs,         \* the file system FileTextHandler reads and writes
    texts,      \* MockTextHandler.texts
    written,    \* history: the content last passed to the mock's write_text, per name
    pc,         \* "ready", or "returned" once a call has given its result
    op,         \* the operation that returned
    arg,        \* its name or pattern
    result      \* what it returned

vars == <<fs, texts, written, pc, op, arg, result>>

nA == <<"a">>
nC == <<"c">>
nAA == <<"a", "a">>
nAC == <<"a", "c">>
nCA == <<"c", "a">>
nCC == <<"c", "c">>
nADot == <<"a", ".">>
nAInvalid == <<"a", Invalid>>

\* A populated file system: / holds the directory a, the file c, ac (a link
\* to the directory a) and ca (a link to /cc, which does not exist); /a
\* holds the files a, ac, `a.` and one whose name is not UTF-8, the empty
\* directory c, and the links ca (to the file /c), aa (to the directory /a)
\* and cc (to /a/c/a, which does not exist).
RichFs ==
    (<<>> :> DirNode)
    @@ (<<nA>> :> DirNode)
    @@ (<<nC>> :> FileNode("t0"))
    @@ (<<nAC>> :> LinkNode(<<nA>>))
    @@ (<<nCA>> :> LinkNode(<<nCC>>))
    @@ (<<nA, nA>> :> FileNode("t0"))
    @@ (<<nA, nAC>> :> FileNode("t0"))
    @@ (<<nA, nADot>> :> FileNode("t0"))
    @@ (<<nA, nAInvalid>> :> FileNode("t0"))
    @@ (<<nA, nC>> :> DirNode)
    @@ (<<nA, nCA>> :> LinkNode(<<nC>>))
    @@ (<<nA, nAA>> :> LinkNode(<<nA>>))
    @@ (<<nA, nCC>> :> LinkNode(<<nA, nC, nA>>))

\* A file system with nothing but the root directory.
EmptyFs == (<<>> :> DirNode)

InitialFs == {RichFs, EmptyFs}

\* What precedes the last part of the patterns given to FileTextHandler.
FilePrefixes ==
    { <<>>, <<Sep>>, <<".", Sep>>, <<".", ".", Sep>>,
      <<"a", Sep>>, <<"a", Backslash>>, <<Sep, "a", Sep>>, <<"a", Sep, "c", Sep>>,
      <<"a", "c", Sep>>, <<"c", Sep>>, <<"c", "a", Sep>>,
      <<"a", "*", Sep>>, <<"?", Sep>> }

FilePatterns == {pre \o t : pre \in FilePrefixes, t \in Strs(MaxTail)}

\* The names FileTextHandler writes, and those it reads.
FileWriteNames ==
    { <<"c">>, <<"c", "c">>, <<"a", Backslash, "c">>, <<"a", Sep, "c">>, <<"c", "a", Sep, "a">> }
FileReadNames ==
    FileWriteNames \cup { <<"a", Sep, "a">>, <<"a", Backslash, "a">>, <<"a", Sep, "c", "a">>,
                          <<"a", Sep, "c", "c">>, <<"c", "a">> }
FileContents == {"t1"}

\* The names the mock is written and read under, and the contents.
MockNames == { <<"a">>, <<"a", "c">>, <<Sep, "a">>, <<"a", Backslash>>, <<Invalid>> }
MockContents == {"t1", "t2"}
MockPatterns == Strs(MaxPat)

NoTexts == [k \in {} |-> "none"]

Init ==
    /\ fs \in InitialFs
    /\ texts = NoTexts
    /\ written = NoTexts
    /\ pc = "ready"
    /\ op = "none"
    /\ arg = <<>>
    /\ result = NoResult

Returned(o, a, r) ==
    /\ pc' = "returned"
    /\ op' = o
    /\ arg' = a
    /\ result' = r

FileListNames ==
    /\ pc = "ready"
    /\ \E global_name \in FilePatterns :
         \E r \in file_list_names(fs, global_name) :
            Returned("file_list_names", global_name, r)
    /\ UNCHANGED <<fs, texts, written>>

FileReadText ==
    /\ pc = "ready"
    /\ \E name \in FileReadNames :
         Returned("file_read_text", name, file_read_text(fs, name))
    /\ UNCHANGED <<fs, texts, written>>

FileWriteText ==
    /\ pc = "ready"
    /\ \E name \in FileWriteNames, content \in FileContents :
         LET w == file_write_text(fs, name, content)
         IN  /\ fs' = w.fs
             /\ Returned("file_write_text", name, w.result)
    /\ UNCHANGED <<texts, written>>

MockListNames ==
    /\ pc = "ready"
    /\ \E global_name \in MockPatterns, lenient \in BOOLEAN :
         \E r \in mock_list_names(texts, global_name, lenient) :
            Returned("mock_list_names", global_name, r)
    /\ UNCHANGED <<fs, texts, written>>

MockReadText ==
    /\ pc = "ready"
    /\ \E name \in MockNames :
         Returned("mock_read_text", name, mock_read_text(texts, name))
    /\ UNCHANGED <<fs, texts, written>>

MockWriteText ==
    /\ pc = "ready"
    /\ \E name \in MockNames, content \in MockContents :
         LET w == mock_write_text(texts, name, content)
         IN  /\ texts' = w.texts
             /\ written' = (name :> content) @@ written
             /\ Returned("mock_write_text", name, w.result)
    /\ UNCHANGED fs

\* The caller takes the result and is ready for its next call.
Continue ==
    /\ pc = "returned"
    /\ pc' = "ready"
    /\ op' = "none"
    /\ arg' = <<>>
    /\ result' = NoResult
    /\ UNCHANGED <<fs, texts, written>>

FileNext == FileListNames \/ FileReadText \/ FileWriteText \/ Continue
MockNext == MockListNames \/ MockReadText \/ MockWriteText \/ Continue

FileSpec == Init /\ [][FileNext]_vars
MockSpec == Init /\ [][MockNext]_vars

\* A program that holds a handler of each kind and writes through one of
\* them only: the handler of the other kind is called as long as its store
\* is as it was constructed.
FileCall == texts = NoTexts /\ FileNext
MockCall == fs \in InitialFs /\ MockNext
EitherNext == FileCall \/ MockCall
EitherSpec == Init /\ [][EitherNext]_vars

----------------------------------------------------------------------------
(* Vocabulary of the claims.                                               *)

\* The components of a pattern, `/` and `\` both separating them.
PatternComponents(p) == Components(Replace(p, Backslash, <<Sep>>))

\* A wildcard occurs in a component that is not the last one.
WildcardOutsideLast(p) ==
    \E i \in 1..(Len(PatternComponents(p)) - 1) :
        HasWildcardChar(PatternComponents(p)[i].text)

\* The pattern has wildcards, all of them in its last component.
WildcardOnlyInLast(p) == HasWildcardChar(p) /\ ~WildcardOutsideLast(p)

LastPart(p) == Last(PatternComponents(p)).text
ParentComponents(p) == Front(PatternComponents(p))

\* The node a non-empty list of components leads to.
ComponentsNode(f, comps) ==
    Walk(f, IF comps[1].type = "RootDir" THEN <<>> ELSE Cwd,
         [i \in 1..Len(comps) |-> IF comps[i].type = "RootDir" THEN <<>> ELSE comps[i].text],
         1, 2)

ComponentsAreDir(f, comps) ==
    ComponentsNode(f, comps).ok /\ f[ComponentsNode(f, comps).at].kind = "dir"

\* The pattern with its final component dropped exists as a directory.
ParentIsDir(f, p) ==
    ParentComponents(p) # <<>> /\ ComponentsAreDir(f, ParentComponents(p))

\* The directory that should contain the matches exists: the parent, or the
\* current directory for a pattern of one component.
ContainingDirExists(f, p) ==
    IF ParentComponents(p) = <<>> THEN f[Cwd].kind = "dir"
    ELSE ComponentsAreDir(f, ParentComponents(p))

\* The entries of the parent directory of p, as paths of nodes.
ParentEntries(f, p) ==
    LET d == ComponentsNode(f, ParentComponents(p)).at
    IN  {q \in DOMAIN f : Len(q) = Len(d) + 1 /\ Front(q) = d}

\* A plain file, or a symbolic link that resolves to one.
EntryIsPlainFile(f, q) ==
    \/ f[q].kind = "file"
    \/ /\ f[q].kind = "link"
       /\ LET t == Walk(f, <<>>, f[q].target, 1, 2) IN t.ok /\ f[t.at].kind = "file"

\* File-glob matching of a whole name: `*` is zero or more characters, `?`
\* exactly one, any other character itself.
RECURSIVE GlobMatch(_, _)
GlobMatch(pat, name) ==
    IF pat = <<>> THEN name = <<>>
    ELSE IF Head(pat) = "*"
         THEN GlobMatch(Tail(pat), name) \/ (name # <<>> /\ GlobMatch(pat, Tail(name)))
    ELSE IF Head(pat) = "?" THEN name # <<>> /\ GlobMatch(Tail(pat), Tail(name))
    ELSE name # <<>> /\ Head(name) = Head(pat) /\ GlobMatch(Tail(pat), Tail(name))

ReturnedFrom(o) == pc = "returned" /\ op = o

ResultNames == {result.names[i] : i \in 1..Len(result.names)}

\* The result holds the path of the directory entry q.
Reported(q) == \E n \in ResultNames : Last(Split(n)) = Last(q)

NoDuplicates(names) == \A i, j \in 1..Len(names) : names[i] = names[j] => i = j

----------------------------------------------------------------------------
(* Claims about FileTextHandler::list_names, checked under FileSpec.       *)

\* C1 as stated: for every pattern with a wildcard in a component other than
\* the last, list_names fails with WildcardInParent, having made no call to
\* the file system and returning no name.
C1_AsStated ==
    (ReturnedFrom("file_list_names") /\ WildcardOutsideLast(arg))
        => result = Err("WildcardInParent", <<>>)

\* C1, amended: for every pattern that is valid UTF-8 and has a wildcard in
\* a component other than the last, list_names fails with WildcardInParent,
\* whatever the file system holds, having made no call to the file system
\* and returning no name.
C1_WildcardInParent ==
    (ReturnedFrom("file_list_names") /\ IsUtf8(arg) /\ WildcardOutsideLast(arg))
        => result = Err("WildcardInParent", <<>>)

\* A call with a wildcard before the last component of a pattern whose parent
\* exists, and one whose parent does not, has returned WildcardInParent.
C1_Witness ==
    /\ ReturnedFrom("file_list_names")
    /\ fs = RichFs
    /\ arg \in {<<"?", Sep, "*">>, <<"a", "*", Sep, "c">>, <<"a", "*", Sep, ".", ".">>}
    /\ result.err = "WildcardInParent"

\* C2 as stated: for every pattern whose wildcards are all in the last
\* component and whose parent is no existing directory, list_names fails
\* with NonexistentParent and returns no name.
C2_AsStated ==
    (ReturnedFrom("file_list_names") /\ WildcardOnlyInLast(arg) /\ ~ParentIsDir(fs, arg))
        => (result.tag = "Err" /\ result.err = "NonexistentParent" /\ result.names = <<>>)

\* C2, amended: for every pattern that is valid UTF-8, whose wildcards are
\* all in the last component and whose parent (the pattern with its final
\* component dropped) is no existing directory, list_names fails with
\* NonexistentParent and returns no name.
C2_NonexistentParent ==
    (ReturnedFrom("file_list_names") /\ IsUtf8(arg) /\ WildcardOnlyInLast(arg)
        /\ ~ParentIsDir(fs, arg))
        => (result.tag = "Err" /\ result.err = "NonexistentParent" /\ result.names = <<>>)

\* A call whose parent is a plain file, or a link to nothing, or missing,
\* has returned NonexistentParent.
C2_Witness ==
    /\ ReturnedFrom("file_list_names")
    /\ fs = RichFs
    /\ arg \in {<<"c", Sep, "*">>, <<"c", "a", Sep, "?">>, <<"a", Sep, "c", Sep, "c", Sep, "*">>}
    /\ result.err = "NonexistentParent"

\* C3 as stated: for every pattern whose wildcards are all in the last
\* component and whose containing directory exists (the current directory
\* for a pattern of one component), list_names does not fail with
\* NonexistentParent.
C3_AsStated ==
    (ReturnedFrom("file_list_names") /\ WildcardOnlyInLast(arg)
        /\ ContainingDirExists(fs, arg))
        => result.err # "NonexistentParent"

\* C4 as stated: for every pattern that is valid UTF-8 and has no wildcard,
\* list_names returns Ok: the list holding the pattern as supplied if a
\* plain file exists at that exact path, and the empty list otherwise.
C4_AsStated ==
    (ReturnedFrom("file_list_names") /\ IsUtf8(arg) /\ ~HasWildcardChar(arg))
        => /\ result.tag = "Ok"
           /\ result.names = IF is_file(fs, arg) THEN <<arg>> ELSE <<>>

\* C5: whenever list_names returns a list for a wildcard pattern, an entry
\* of the parent directory is in it only if it is a plain file or a symbolic
\* link that resolves to a plain file (never a directory, a link to a
\* directory or a dangling link), and every such entry whose name matches
\* the last component is in it.
C5_OnlyPlainFiles ==
    (ReturnedFrom("file_list_names") /\ HasWildcardChar(arg) /\ result.tag = "Ok")
        => \A q \in ParentEntries(fs, arg) :
              /\ Reported(q) => EntryIsPlainFile(fs, q)
              /\ (EntryIsPlainFile(fs, q) /\ IsUtf8(Last(q)) /\ GlobMatch(LastPart(arg), Last(q)))
                    => Reported(q)

\* Listing /a/* has returned the three plain files and the link to a plain
\* file, and neither the directory c, the link aa to a directory nor the
\* dangling link cc, whose names match as well.
C5_Witness ==
    /\ ReturnedFrom("file_list_names")
    /\ fs = RichFs
    /\ arg = <<Sep, "a", Sep, "*">>
    /\ ResultNames = { <<Sep, "a", Sep, "a">>, <<Sep, "a", Sep, "a", "c">>,
                       <<Sep, "a", Sep, "a", ".">>, <<Sep, "a", Sep, "c", "a">> }

C7_AsStated ==
    ReturnedFrom("file_list_names") => result.err # "RegexError"

----------------------------------------------------------------------------
(* Claims about MockTextHandler, checked under MockSpec.                   *)

\* C8 as stated: list_names with a pattern that has a wildcard returns,
\* without duplicates, exactly the stored keys whose whole text the pattern
\* matches with `*` as zero or more characters, `?` as exactly one and
\* every other character, `.` included, as itself.
C8_AsStated ==
    (ReturnedFrom("mock_list_names") /\ IsUtf8(arg) /\ HasWildcardChar(arg))
        => /\ result.tag = "Ok"
           /\ NoDuplicates(result.names)
           /\ ResultNames = {key \in DOMAIN written : IsUtf8(key) /\ GlobMatch(arg, key)}

\* C9: read_text(n) returns the content of the most recent write_text to n,
\* and fails with NotFound if n was never written; the map holds exactly
\* the names written, each with its last content; write_text succeeds.
C9_ReadLastWritten ==
    /\ texts = written
    /\ ReturnedFrom("mock_read_text")
         => result = IF arg \in DOMAIN written THEN OkText(written[arg])
                     ELSE Err("NotFound", <<>>)
    /\ ReturnedFrom("mock_write_text") => result.tag = "Ok"

\* A name written with t2 has been read back while another name holds t1.
C9_Witness ==
    /\ ReturnedFrom("mock_read_text")
    /\ arg = <<"a">>
    /\ result = OkText("t2")
    /\ <<"a", "c">> \in DOMAIN written
    /\ written[<<"a", "c">>] = "t1"

\* C10: list_names with a pattern that is valid UTF-8 and has no wildcard
\* returns Ok: the list holding that name if it has been written, the empty
\* list otherwise, whatever separators the name contains.
C10_ExactName ==
    (ReturnedFrom("mock_list_names") /\ IsUtf8(arg) /\ ~HasWildcardChar(arg))
        => /\ result.tag = "Ok"
           /\ result.names = IF arg \in DOMAIN written THEN <<arg>> ELSE <<>>

\* A stored name that ends with a backslash has been listed and returned
\* while a name with a `/` is stored as well.
C10_Witness ==
    /\ ReturnedFrom("mock_list_names")
    /\ arg = <<"a", Backslash>>
    /\ result.names = <<arg>>
    /\ <<Sep, "a">> \in DOMAIN written

\* Every wildcard of the pattern comes after its last separator, `/` and
\* `\` both being separators.
WildcardsAfterLastSeparator(p) ==
    \A i \in 1..Len(p) :
        IsWildcardChar(p[i]) => \A j \in (i + 1)..Len(p) : p[j] \notin {Sep, Backslash}

\* C12: `/` and `\` both separate components: for every pattern whose
\* wildcards all lie in the final component (after the last separator of
\* either kind, or in the last of the components the path has), list_names
\* never fails with WildcardInParent.
C12_BothSeparators ==
    (ReturnedFrom("file_list_names")
        /\ (WildcardsAfterLastSeparator(arg) \/ ~WildcardOutsideLast(arg)))
        => result.err # "WildcardInParent"

\* a\a*, where a backslash separates the directory from the pattern of the
\* file name, has been listed and the three files of a/ returned.
C12_Witness ==
    /\ ReturnedFrom("file_list_names")
    /\ fs = RichFs
    /\ arg = <<"a", Backslash, "a", "*">>
    /\ result.tag = "Ok"
    /\ ResultNames = { <<"a", Sep, "a">>, <<"a", Sep, "a", "c">>, <<"a", Sep, "a", ".">> }

----------------------------------------------------------------------------
(* Claims about both handlers, checked under EitherSpec.                   *)

\* C11: for every pattern that cannot be decoded as UTF-8, list_names of
\* FileTextHandler and of MockTextHandler fails with NonUtf8, whatever the
\* file system or the store holds: no name is returned, and no call to the
\* file system is made.
C11_NonUtf8 ==
    (pc = "returned" /\ op \in {"file_list_names", "mock_list_names"} /\ ~IsUtf8(arg))
        => result = Err("NonUtf8", <<>>)

\* a/a0xFF, which has no wildcard and is the path of a plain file, has been
\* listed and NonUtf8 returned.
C11_Witness ==
    /\ ReturnedFrom("file_list_names")
    /\ fs = RichFs
    /\ arg = <<"a", Sep, "a", Invalid>>
    /\ is_file(fs, arg)
    /\ result.err = "NonUtf8"

\* The mock has failed with NonUtf8 for the undecodable name that is one of
\* its keys.
C11_MockReached ==
    /\ ReturnedFrom("mock_list_names")
    /\ arg = <<Invalid>>
    /\ arg \in DOMAIN texts
    /\ result.err = "NonUtf8"

\* C13 as stated: every name list_names returns can be read through the
\* same handler while nothing is written in between: read_text succeeds
\* for each name FileTextHandler returns, which is the path of a plain
\* file, and each name MockTextHandler returns is a stored key.
C13_AsStated ==
    /\ (ReturnedFrom("file_list_names") /\ result.tag = "Ok")
          => \A n \in ResultNames :
                file_read_text(fs, n).tag = "Ok" /\ is_file(fs, n)
    /\ (ReturnedFrom("mock_list_names") /\ result.tag = "Ok")
          => \A n \in ResultNames :
                n \in DOMAIN texts /\ mock_read_text(texts, n).tag = "Ok"

====
